---- MODULE Spec2Model ----
(***************************************************************************)
(* Model of morse/middleware/ros/abstract_ros.py: the ROS datastream       *)
(* adapters AbstractROS, ROSPublisher, ROSPublisherTF and ROSReader.       *)
(*                                                                         *)
(* Python strings are sequences of one-character strings, so that          *)
(* concatenation, re.sub and str.replace are computed, not assumed.        *)
(***************************************************************************)
EXTENDS Integers, Sequences, FiniteSets, TLC

\* ------------------------------------------------------------------ bounds
\* longest component_name explored by the topic-name specification
MaxLen == 4

\* ----------------------------------------------------------------- strings
Digits == {"0", "1"}
Letters == {"a"}
Alphabet == Letters \cup Digits \cup {"."}

RECURSIVE StringsUpTo(_)
StringsUpTo(n) ==
    IF n = 0 THEN {<<>>}
    ELSE LET shorter == StringsUpTo(n - 1)
         IN shorter \cup {Append(s, c) : s \in {t \in shorter : Len(t) = n - 1}, c \in Alphabet}

\* end (inclusive) of the greedy digit run [0-9]+ that starts at position i
RECURSIVE digit_run_end(_, _)
digit_run_end(s, i) ==
    IF i < Len(s) /\ s[i + 1] \in Digits THEN digit_run_end(s, i + 1) ELSE i

\* a variant of re_sub whose replacement drops the captured digits
RECURSIVE re_sub_drop_group(_, _)
re_sub_drop_group(s, i) ==
    IF i > Len(s) THEN <<>>
    ELSE IF s[i] = "." /\ i < Len(s) /\ s[i + 1] \in Digits
         THEN re_sub_drop_group(s, digit_run_end(s, i + 1) + 1)
         ELSE <<s[i]>> \o re_sub_drop_group(s, i + 1)

\* re.sub(r'\.([0-9]+)', r'\1', s) scanning from position i: the leftmost
\* match of a '.' followed by a greedy run of digits is replaced by the run,
\* and the scan resumes after the match.
RECURSIVE re_sub(_, _)
re_sub(s, i) ==
    IF i > Len(s) THEN <<>>
    ELSE IF s[i] = "." /\ i < Len(s) /\ s[i + 1] \in Digits
         THEN LET j == digit_run_end(s, i + 1)
              IN SubSeq(s, i + 1, j) \o re_sub(s, j + 1)
         ELSE <<s[i]>> \o re_sub(s, i + 1)

\* str.replace('.', '/')
replace_dot(s) == [k \in 1..Len(s) |-> IF s[k] = "." THEN "/" ELSE s[k]]

\* AbstractROS.get_topic_name, on self.component_name = component
get_topic_name(component) == <<"/">> \o replace_dot(re_sub(component, 1))

\* ----------------------------------------------------------- Python values
\* a Python object: its type, and its number or its characters
\* the None object
None == [kind |-> "None", id |-> 0, str |-> <<>>]
\* the i-th message object handed to ROSReader.callback by the subscription
Msg(i) == [kind |-> "msg", id |-> i, str |-> <<>>]
\* rospy.Time(n)
Time(n) == [kind |-> "Time", id |-> n, str |-> <<>>]
\* the str object with characters s
Str(s) == [kind |-> "str", id |-> 0, str |-> s]

\* a variant of Truthy that takes every object as true
truthy_always(v) == TRUE
\* bool(v): None is false; a ROS message object defines neither __bool__ nor
\* __len__, so it is true; a rospy.Time is true unless zero; a str is true
\* unless empty
Truthy(v) ==
    CASE v.kind = "None" -> FALSE
      [] v.kind = "msg" -> TRUE
      [] v.kind = "Time" -> v.id # 0
      [] v.kind = "str" -> v.str # <<>>

\* ---------------------------------------------------------------- objects
Reader == "r"
Pubs == {"p1", "p2"}
Objs == Pubs \cup {Reader}
\* the middleware threads that deliver to the reader's subscription, one per
\* connected publisher
CbThreads == {"t1", "t2"}

Keys == {"topic", "topic_suffix", "frame_id", "parent_frame_id"}
KwVal ==
    [topic |-> <<"/", "t">>, topic_suffix |-> <<"/", "s">>,
     frame_id |-> <<"f">>, parent_frame_id |-> <<"w">>]
\* every choice of which keyword arguments the builder script passed
KwargsSet == {[k \in K |-> KwVal[k]] : K \in SUBSET Keys}
EmptyKw == [k \in {} |-> <<>>]
CompNames == {<<"a", ".", "1">>, <<"a", ".", "a">>}

\* self.topic: None, or a rospy.Publisher / rospy.Subscriber handle
NoTopic == [kind |-> "None", name |-> <<>>, registered |-> FALSE]
Publisher(n) == [kind |-> "Publisher", name |-> n, registered |-> TRUE]
Subscriber(n) == [kind |-> "Subscriber", name |-> n, registered |-> TRUE]
unregister(t) == [t EXCEPT !.registered = FALSE]

\* -------------------------------------------------------------- variables
VARIABLES
    name,           \* argument of the get_topic_name call under study
    topic_result,   \* value returned by that call
    topic_called,   \* whether get_topic_name has returned
    component_name, \* self.component_name, per object
    kwargs,         \* self.kwargs, per object
    phase,          \* "constructed", "initialized" or "finalized", per object
    topic_name,     \* self.topic_name, per object
    topic,          \* self.topic, per object
    node_shutdown,  \* rospy.signal_shutdown has been called
    message,        \* ROSReader.message, the one-slot mailbox
    updates,        \* the arguments of the update calls so far, in order
    ret,            \* what the last default call returned
    last_call,      \* the reader method that returned last
    received,       \* number of callback invocations so far
    unread,         \* the callback arguments since the slot was last emptied
    accepted,       \* the messages callback has written into the slot
    cb_pc,          \* where each middleware thread stands in callback
    cb_arg,         \* the message each middleware thread's callback was given
    sim_pc,         \* where the simulator thread stands in default
    frame_id,       \* self.frame_id, per publisher
    sequence,       \* self.sequence, per publisher
    topic_tf,       \* the class attribute ROSPublisherTF.topic_tf
    topic_out,      \* number of messages sent out on self.topic, per publisher
    tf_out,         \* the tfMessages sent out on the "/tf" publisher, in order
    header,         \* the Header the last get_ros_header call returned
    call            \* the publisher method that returned last, its arguments

topicVars == <<name, topic_result, topic_called>>
objVars == <<component_name, kwargs, phase, topic_name, topic, node_shutdown>>
readerVars == <<message, updates, ret, last_call, received, unread, accepted>>
concVars == <<cb_pc, cb_arg, sim_pc>>
pubVars == <<frame_id, sequence, topic_tf, topic_out, tf_out, header, call>>
vars == <<topicVars, objVars, readerVars, concVars, pubVars>>

\* ------------------------------------------------------- initial conditions
TopicIdle ==
    /\ name = <<>>
    /\ topic_result = <<>>
    /\ topic_called = FALSE

\* a Header not yet filled in, and no call made yet
NoHeader == [stamp |-> None, seq |-> 0, frame_id |-> <<>>]
NoCall ==
    [op |-> "-", obj |-> "-", time |-> None, child |-> None, parent |-> None,
     now |-> None, raised |-> FALSE]

\* the objects in `made` as constructed, before any initialize; the others
\* are not part of the scene
ObjsConstructed(made) ==
    /\ phase = [o \in Objs |-> IF o \in made THEN "constructed" ELSE "absent"]
    /\ topic_name = [o \in Objs |-> <<>>]
    /\ topic = [o \in Objs |-> NoTopic]
    /\ node_shutdown = FALSE
    /\ frame_id = [o \in Pubs |-> <<>>]
    /\ sequence = [o \in Pubs |-> 0]
    /\ topic_tf = NoTopic
    /\ topic_out = [o \in Pubs |-> 0]
    /\ tf_out = <<>>
    /\ header = NoHeader
    /\ call = NoCall

ReaderConstructed ==
    /\ message = None
    /\ updates = <<>>
    /\ ret = "-"
    /\ last_call = "-"
    /\ received = 0
    /\ unread = <<>>
    /\ accepted = {}
    /\ cb_pc = [t \in CbThreads |-> "idle"]
    /\ cb_arg = [t \in CbThreads |-> None]
    /\ sim_pc = "idle"

\* --------------------------------------------- topic-name specification
InitTopic ==
    /\ name \in StringsUpTo(MaxLen)
    /\ topic_result = <<>>
    /\ topic_called = FALSE
    /\ component_name = [o \in Objs |-> <<"a">>]
    /\ kwargs = [o \in Objs |-> EmptyKw]
    /\ ObjsConstructed({})
    /\ ReaderConstructed

CallGetTopicName ==
    /\ ~topic_called
    /\ topic_result' = get_topic_name(name)
    /\ topic_called' = TRUE
    /\ UNCHANGED <<name, objVars, readerVars, concVars, pubVars>>

NextTopic == CallGetTopicName
SpecTopic == InitTopic /\ [][NextTopic]_vars

\* a '.' at position i is deleted when a digit directly follows it
dot_before_digit(s, i) == s[i] = "." /\ i < Len(s) /\ s[i + 1] \in Digits

\* the topic the claim describes: '/' + name with every '.' that is directly
\* followed by digits deleted and every other '.' turned into '/'
derived_topic(s) ==
    LET idx == SelectSeq([i \in 1..Len(s) |-> i], LAMBDA i : ~dot_before_digit(s, i))
    IN <<"/">> \o [k \in 1..Len(idx) |-> IF s[idx[k]] = "." THEN "/" ELSE s[idx[k]]]

\* C4: after get_topic_name returns, the result is '/' followed by the
\* component name with each '.' that directly precedes digits deleted (digits
\* kept) and each remaining '.' replaced by '/'; it starts with '/' and holds
\* no '.'.
C4_TopicDerived ==
    topic_called =>
        /\ topic_result = derived_topic(name)
        /\ topic_result[1] = "/"
        /\ \A k \in 1..Len(topic_result) : topic_result[k] # "."

\* C4 witness: a name with both kinds of '.': ".1.a" -> "/1/a"
C4_Witness ==
    /\ topic_called
    /\ name = <<".", "1", ".", "a">>
    /\ topic_result = <<"/", "1", "/", "a">>

\* ------------------------------------------------------------ AbstractROS
\* AbstractROS.initialize: self.topic_name from kwargs['topic'] or derived
AbstractROS_topic_name(o) ==
    IF "topic" \in DOMAIN kwargs[o] THEN kwargs[o]["topic"]
    ELSE get_topic_name(component_name[o])

\* AbstractROS.finalize: unregister the topic, shut the node down
AbstractROS_finalize(o) ==
    /\ phase[o] = "initialized"
    /\ topic' = [topic EXCEPT ![o] = unregister(topic[o])]
    /\ node_shutdown' = TRUE
    /\ phase' = [phase EXCEPT ![o] = "finalized"]
    /\ UNCHANGED <<component_name, kwargs, topic_name>>

\* -------------------------------------------------------------- ROSReader
\* number of messages the subscription delivers in one behaviour
MaxMsgs == 3

\* ROSReader.initialize
ROSReader_initialize ==
    /\ phase[Reader] = "constructed"
    /\ topic_name' = [topic_name EXCEPT ![Reader] = AbstractROS_topic_name(Reader)]
    /\ message' = None
    /\ topic' = [topic EXCEPT ![Reader] = Subscriber(AbstractROS_topic_name(Reader))]
    /\ phase' = [phase EXCEPT ![Reader] = "initialized"]
    /\ last_call' = "initialize"
    /\ UNCHANGED <<component_name, kwargs, node_shutdown>>
    /\ UNCHANGED <<updates, ret, received, unread, accepted, concVars>>

\* ROSReader.callback: the test "if self.message is None:"
callback_test(slot) == slot = None

\* a variant of callback_store that always takes the new message
callback_overwrite(slot, m) == m
\* ROSReader.callback: the slot after callback(m)
callback_store(slot, m) == IF callback_test(slot) THEN m ELSE slot

\* a variant of default_clear that leaves the slot as it is
default_keep(slot) == slot
\* ROSReader.default, taken branch: the slot after "self.message = None"
default_clear(slot) == None

\* ROSReader.default: the test "if self.message:"
default_test(slot) == Truthy(slot)

\* ROSReader.callback(Msg(received + 1)), run as one step
callback ==
    /\ phase[Reader] = "initialized"
    /\ received < MaxMsgs
    /\ LET m == Msg(received + 1)
       IN /\ message' = callback_store(message, m)
          /\ accepted' = IF message' = m THEN accepted \cup {m} ELSE accepted
          /\ unread' = Append(unread, m)
    /\ received' = received + 1
    /\ last_call' = "callback"
    /\ UNCHANGED <<updates, ret, concVars>>

\* ROSReader.default(), run as one step
default ==
    /\ phase[Reader] \in {"initialized", "finalized"}
    /\ IF default_test(message)
       THEN /\ updates' = Append(updates, message)
            /\ message' = default_clear(message)
            /\ ret' = "True"
       ELSE /\ ret' = "False"
            /\ UNCHANGED <<message, updates>>
    /\ unread' = IF message' = None THEN <<>> ELSE unread
    /\ last_call' = "default"
    /\ UNCHANGED <<received, accepted, concVars>>

ReaderFinalize ==
    /\ AbstractROS_finalize(Reader)
    /\ last_call' = "finalize"
    /\ UNCHANGED <<message, updates, ret, received, unread, accepted, concVars>>

InitReader ==
    /\ TopicIdle
    /\ component_name \in [Objs -> CompNames]
    /\ \A o \in Pubs : component_name[o] = component_name[Reader]
    /\ kwargs \in [Objs -> KwargsSet]
    /\ \A o \in Pubs : kwargs[o] = EmptyKw
    /\ "topic_suffix" \notin DOMAIN kwargs[Reader]
    /\ "parent_frame_id" \notin DOMAIN kwargs[Reader]
    /\ ObjsConstructed({Reader})
    /\ ReaderConstructed

NextReader ==
    \/ ROSReader_initialize /\ UNCHANGED <<topicVars, pubVars>>
    \/ callback /\ UNCHANGED <<topicVars, objVars, pubVars>>
    \/ default /\ UNCHANGED <<topicVars, objVars, pubVars>>
    \/ ReaderFinalize /\ UNCHANGED <<topicVars, pubVars>>

SpecReader == InitReader /\ [][NextReader]_vars

\* the messages callback wrote into the slot that no update call has received
Pending == {m \in accepted : \A k \in 1..Len(updates) : updates[k] # m}

\* C1 as stated: a callback that finds an unread message in the slot replaces
\* it by its argument (newest wins).
C1_NewestWins ==
    [][(last_call' = "callback" /\ received' = received + 1 /\ message # None)
        => message' = Msg(received')]_vars

\* C1 as amended: a callback that finds an unread message in the slot leaves
\* the slot alone and its own argument is dropped (oldest wins), and the next
\* default passes that oldest unread message to update.
C1_OldestKept ==
    [][/\ (last_call' = "callback" /\ received' = received + 1 /\ message # None)
            => (message' = message /\ accepted' = accepted)
       /\ (last_call' = "default" /\ Len(unread) >= 2)
            => (updates' = Append(updates, unread[1]) /\ message' = None)]_vars

\* C1 witness: callback(m1), callback(m2), default: update received m1 and m2 never
\* entered the slot
C1_Witness ==
    /\ received = 2
    /\ updates = <<Msg(1)>>
    /\ message = None
    /\ last_call = "default"
    /\ Msg(2) \notin accepted

\* C2: right after a default call returns the slot is None, and at no time
\* is more than one written message waiting to be passed to update.
C2_ClearedOnRead ==
    /\ last_call = "default" => message = None
    /\ Cardinality(Pending) <= 1

\* C2 witness: a default call that found a message has returned, and the slot is empty
C2_Witness ==
    /\ last_call = "default"
    /\ ret = "True"
    /\ Len(updates) = 2
    /\ message = None

\* C5: default returns True exactly when the slot holds a message at the
\* call; then update receives exactly that message, once, and the slot is
\* cleared; otherwise update is not called and the slot is unchanged.
C5_DefaultContract ==
    [][last_call' = "default" =>
        IF message # None
        THEN ret' = "True" /\ updates' = Append(updates, message) /\ message' = None
        ELSE ret' = "False" /\ updates' = updates /\ message' = message]_vars

\* C5 witness: both branches have been taken: a default that delivered Msg(1), then a
\* default on the empty slot that returned False
C5_Witness ==
    /\ last_call = "default"
    /\ ret = "False"
    /\ updates = <<Msg(1)>>
    /\ message = None

\* ------------------------------------------- ROSReader under interleaving
\* callback runs in the middleware's connection threads and default in the
\* simulator thread; each read or write of self.message is one step.

\* callback(Msg(received + 1)) starts in thread t and tests the slot
CbTest(t) ==
    /\ phase[Reader] = "initialized"
    /\ cb_pc[t] = "idle"
    /\ received < MaxMsgs
    /\ received' = received + 1
    /\ cb_arg' = [cb_arg EXCEPT ![t] = Msg(received + 1)]
    /\ unread' = Append(unread, Msg(received + 1))
    /\ cb_pc' = [cb_pc EXCEPT ![t] = IF callback_test(message) THEN "write" ELSE "idle"]
    /\ UNCHANGED <<message, updates, ret, last_call, accepted, sim_pc>>

\* thread t executes "self.message = message" and returns
CbWrite(t) ==
    /\ cb_pc[t] = "write"
    /\ message' = cb_arg[t]
    /\ accepted' = accepted \cup {cb_arg[t]}
    /\ cb_pc' = [cb_pc EXCEPT ![t] = "idle"]
    /\ last_call' = "callback"
    /\ UNCHANGED <<updates, ret, received, unread, cb_arg, sim_pc>>

\* default starts and tests the slot; on an empty slot it returns False
DefTest ==
    /\ phase[Reader] \in {"initialized", "finalized"}
    /\ sim_pc = "idle"
    /\ IF default_test(message)
       THEN sim_pc' = "update" /\ UNCHANGED <<ret, last_call>>
       ELSE sim_pc' = "idle" /\ ret' = "False" /\ last_call' = "default"
    /\ UNCHANGED <<message, updates, received, unread, accepted, cb_pc, cb_arg>>

\* default reads self.message again and passes it to update
DefUpdate ==
    /\ sim_pc = "update"
    /\ updates' = Append(updates, message)
    /\ sim_pc' = "clear"
    /\ UNCHANGED <<message, ret, last_call, received, unread, accepted, cb_pc, cb_arg>>

\* default executes "self.message = None" and returns True
DefClear ==
    /\ sim_pc = "clear"
    /\ message' = default_clear(message)
    /\ unread' = <<>>
    /\ ret' = "True"
    /\ last_call' = "default"
    /\ sim_pc' = "idle"
    /\ UNCHANGED <<updates, received, accepted, cb_pc, cb_arg>>

NextConc ==
    \/ ROSReader_initialize /\ UNCHANGED <<topicVars, pubVars>>
    \/ \E t \in CbThreads : CbTest(t) /\ UNCHANGED <<topicVars, objVars, pubVars>>
    \/ \E t \in CbThreads : CbWrite(t) /\ UNCHANGED <<topicVars, objVars, pubVars>>
    \/ DefTest /\ UNCHANGED <<topicVars, objVars, pubVars>>
    \/ DefUpdate /\ UNCHANGED <<topicVars, objVars, pubVars>>
    \/ DefClear /\ UNCHANGED <<topicVars, objVars, pubVars>>

SpecConc == InitReader /\ [][NextConc]_vars

\* how often update has received m
Delivered(m) == Cardinality({k \in 1..Len(updates) : updates[k] = m})

\* C9: every message a callback wrote into the slot is still in the slot or
\* has been passed to update, and none has been passed to update twice.
C9_NoAcceptedLost ==
    \A m \in accepted :
        /\ message = m \/ Delivered(m) >= 1
        /\ Delivered(m) <= 1

\* ----------------------------------------------------------- ROSPublisher
\* number of publish calls explored per publisher
MaxSeq == 2
\* number of tfMessages explored on "/tf"
MaxTf == 1

\* the values rospy.Time.now() may return (zero under simulated time before
\* the first clock message)
NowTimes == {Time(0), Time(2)}

\* rospy's Publisher.publish raises on an unregistered handle and after the
\* node was shut down; None has no publish at all
can_publish(t) == t.kind = "Publisher" /\ t.registered /\ ~node_shutdown

\* ROSPublisher.initialize: the name the publisher is registered on
pub_topic(o) ==
    IF "topic_suffix" \in DOMAIN kwargs[o]
    THEN AbstractROS_topic_name(o) \o kwargs[o]["topic_suffix"]
    ELSE AbstractROS_topic_name(o)

\* a variant of pub_frame_id that defaults to the suffixed publisher name
pub_frame_id_suffixed(o) ==
    IF "frame_id" \in DOMAIN kwargs[o] THEN kwargs[o]["frame_id"] ELSE pub_topic(o)
\* ROSPublisher.initialize: self.kwargs.get('frame_id', self.topic_name)
pub_frame_id(o) ==
    IF "frame_id" \in DOMAIN kwargs[o] THEN kwargs[o]["frame_id"]
    ELSE AbstractROS_topic_name(o)

\* ROSPublisher.initialize
ROSPublisher_initialize(o) ==
    /\ phase[o] = "constructed"
    /\ topic_name' = [topic_name EXCEPT ![o] = AbstractROS_topic_name(o)]
    /\ topic' = [topic EXCEPT ![o] = Publisher(pub_topic(o))]
    /\ frame_id' = [frame_id EXCEPT ![o] = pub_frame_id(o)]
    /\ sequence' = [sequence EXCEPT ![o] = 0]
    /\ topic_out' = [topic_out EXCEPT ![o] = 0]
    /\ phase' = [phase EXCEPT ![o] = "initialized"]
    /\ UNCHANGED <<component_name, kwargs, node_shutdown>>

\* ROSPublisherTF.initialize: the "/tf" publisher is created when the class
\* attribute is still None (a Publisher object is always true)
ROSPublisherTF_initialize(o) ==
    /\ ROSPublisher_initialize(o)
    /\ topic_tf' = IF topic_tf.kind = "None" THEN Publisher(<<"/", "t", "f">>) ELSE topic_tf
    /\ call' = [NoCall EXCEPT !.op = "initialize", !.obj = o]
    /\ UNCHANGED <<tf_out, header>>

\* ROSPublisherTF.finalize
ROSPublisherTF_finalize(o) ==
    /\ AbstractROS_finalize(o)
    /\ topic_tf' = unregister(topic_tf)
    /\ call' = [NoCall EXCEPT !.op = "finalize", !.obj = o]
    /\ UNCHANGED <<frame_id, sequence, topic_out, tf_out, header>>

\* ROSPublisher.get_ros_header
get_ros_header(o, now) == [stamp |-> now, seq |-> sequence[o], frame_id |-> frame_id[o]]

CallGetRosHeader(o) ==
    /\ phase[o] \in {"initialized", "finalized"}
    /\ \E now \in NowTimes : header' = get_ros_header(o, now)
    /\ call' = [NoCall EXCEPT !.op = "get_ros_header", !.obj = o]
    /\ UNCHANGED <<objVars, frame_id, sequence, topic_tf, topic_out, tf_out>>

\* a variant of next_sequence that forgets to count
next_sequence_stuck(n) == n
\* ROSPublisher.publish: self.sequence += 1
next_sequence(n) == n + 1

\* ROSPublisher.publish(message): when self.topic.publish raises, the
\* increment is not reached
publish(o) ==
    /\ phase[o] \in {"initialized", "finalized"}
    /\ sequence[o] < MaxSeq
    /\ IF can_publish(topic[o])
       THEN /\ topic_out' = [topic_out EXCEPT ![o] = @ + 1]
            /\ sequence' = [sequence EXCEPT ![o] = next_sequence(sequence[o])]
            /\ call' = [NoCall EXCEPT !.op = "publish", !.obj = o]
       ELSE /\ call' = [NoCall EXCEPT !.op = "publish", !.obj = o, !.raised = TRUE]
            /\ UNCHANGED <<topic_out, sequence>>
    /\ UNCHANGED <<objVars, frame_id, topic_tf, tf_out, header>>

\* ROSPublisherTF.publish_tf(message): the effect on the "/tf" output, and
\* whether the call raised
publish_tf(tfm) == IF can_publish(topic_tf) THEN Append(tf_out, tfm) ELSE tf_out

\* geometry_msgs TransformStamped as sendTransform fills it in
TransformStamped(translation, rotation, time, child, parent) ==
    [frame_id |-> parent, stamp |-> time, child_frame_id |-> child,
     translation |-> translation, rotation |-> rotation]

\* ROSPublisherTF.sendTransform: one tfMessage holding one TransformStamped
sendTransform(translation, rotation, time, child, parent) ==
    publish_tf(<<TransformStamped(translation, rotation, time, child, parent)>>)

\* ROSPublisherTF.get_local_transform
get_local_transform == <<"localPosition", "localOrientation", "localScale">>

\* a variant of default_child that uses the registered topic's name
default_child_topic(o, child) == IF Truthy(child) THEN child.str ELSE topic[o].name
\* send_transform_robot: "if not child: child = self.frame_id"
default_child(o, child) == IF Truthy(child) THEN child.str ELSE frame_id[o]

\* send_transform_robot: "if not parent: parent = self.kwargs.get(...)"
default_parent(o, parent) ==
    IF Truthy(parent) THEN parent.str
    ELSE IF "parent_frame_id" \in DOMAIN kwargs[o] THEN kwargs[o]["parent_frame_id"]
         ELSE <<"b", "a", "s", "e", "_", "l", "i", "n", "k">>

\* send_transform_robot: "if not time: time = rospy.Time.now()"
default_time(time, now) == IF Truthy(time) THEN time ELSE now

TimeArgs == {None, Time(0), Time(1)}
ChildArgs == {None, Str(<<>>), Str(<<"c">>)}
ParentArgs == {None, Str(<<>>), Str(<<"p">>)}

\* ROSPublisherTF.send_transform_robot(time, child, parent); rospy.Time.now()
\* is called only when time is false, and call.now is None otherwise
send_transform_robot(o, time, child, parent) ==
    /\ phase[o] \in {"initialized", "finalized"}
    /\ Len(tf_out) < MaxTf
    /\ \E now \in (IF Truthy(time) THEN {None} ELSE NowTimes) :
        /\ tf_out' = sendTransform(get_local_transform[1], get_local_transform[2],
                                   default_time(time, now), default_child(o, child),
                                   default_parent(o, parent))
        /\ call' = [op |-> "send_transform_robot", obj |-> o, time |-> time,
                    child |-> child, parent |-> parent, now |-> now,
                    raised |-> ~can_publish(topic_tf)]
    /\ UNCHANGED <<objVars, frame_id, sequence, topic_tf, topic_out, header>>

\* a direct ROSPublisherTF.sendTransform call
CallSendTransform(o) ==
    /\ phase[o] \in {"initialized", "finalized"}
    /\ Len(tf_out) < MaxTf
    /\ tf_out' = sendTransform("localPosition", "localOrientation", Time(1),
                               <<"c">>, <<"p">>)
    /\ call' = [NoCall EXCEPT !.op = "sendTransform", !.obj = o,
                              !.raised = ~can_publish(topic_tf)]
    /\ UNCHANGED <<objVars, frame_id, sequence, topic_tf, topic_out, header>>

\* a direct ROSPublisherTF.publish_tf call, with an empty tfMessage
CallPublishTf(o) ==
    /\ phase[o] \in {"initialized", "finalized"}
    /\ Len(tf_out) < MaxTf
    /\ tf_out' = publish_tf(<<>>)
    /\ call' = [NoCall EXCEPT !.op = "publish_tf", !.obj = o,
                              !.raised = ~can_publish(topic_tf)]
    /\ UNCHANGED <<objVars, frame_id, sequence, topic_tf, topic_out, header>>

\* what no publisher method touches
notPub == <<topicVars, readerVars, concVars>>

NextPub ==
    \/ \E o \in Pubs : ROSPublisherTF_initialize(o) /\ UNCHANGED notPub
    \/ \E o \in Pubs : ROSPublisherTF_finalize(o) /\ UNCHANGED notPub
    \/ \E o \in Pubs : CallGetRosHeader(o) /\ UNCHANGED notPub
    \/ \E o \in Pubs : publish(o) /\ UNCHANGED notPub
    \/ \E o \in Pubs : CallPublishTf(o) /\ UNCHANGED notPub
    \/ \E o \in Pubs : CallSendTransform(o) /\ UNCHANGED notPub
    \/ \E o \in Pubs, time \in TimeArgs, child \in ChildArgs, parent \in ParentArgs :
          send_transform_robot(o, time, child, parent) /\ UNCHANGED notPub

\* one publisher, every choice of its keyword arguments but 'topic' (the
\* topic name is then the derived one)
InitPub ==
    /\ TopicIdle
    /\ component_name = [o \in Objs |-> <<"a", ".", "1">>]
    /\ kwargs \in [Objs -> KwargsSet]
    /\ "topic" \notin DOMAIN kwargs["p1"]
    /\ \A o \in Objs \ {"p1"} : kwargs[o] = EmptyKw
    /\ ObjsConstructed({"p1"})
    /\ ReaderConstructed

SpecPub == InitPub /\ [][NextPub]_vars

\* two publishers sharing the class-level "/tf" publisher
InitTF ==
    /\ TopicIdle
    /\ component_name = [o \in Objs |-> <<"a", ".", "1">>]
    /\ kwargs = [o \in Objs |-> EmptyKw]
    /\ ObjsConstructed(Pubs)
    /\ ReaderConstructed

SpecTF == InitTF /\ [][NextPub]_vars

\* ------------------------------------------------- initialize, both kinds
\* one publisher and one reader, every choice of their keyword arguments
InitInit ==
    /\ TopicIdle
    /\ component_name \in [Objs -> CompNames]
    /\ component_name["p2"] = component_name["p1"]
    /\ kwargs \in [Objs -> KwargsSet]
    /\ kwargs["p2"] = EmptyKw
    /\ ObjsConstructed({"p1", Reader})
    /\ ReaderConstructed

NextInit ==
    \/ \E o \in Pubs : ROSPublisherTF_initialize(o) /\ UNCHANGED notPub
    \/ \E o \in Pubs : ROSPublisherTF_finalize(o) /\ UNCHANGED notPub
    \/ ROSReader_initialize /\ UNCHANGED <<topicVars, pubVars>>
    \/ ReaderFinalize /\ UNCHANGED <<topicVars, pubVars>>

SpecInit == InitInit /\ [][NextInit]_vars

\* the topic name the claim describes for object o
expected_topic_name(o) ==
    IF "topic" \in DOMAIN kwargs[o] THEN KwVal["topic"]
    ELSE derived_topic(component_name[o])

\* C6: after initialize, topic_name is kwargs['topic'] when given and the
\* derived name otherwise; a publisher is registered on topic_name plus
\* kwargs['topic_suffix'] when given, its frame_id is kwargs['frame_id'] when
\* given and otherwise topic_name without the suffix; a reader subscribes on
\* topic_name itself.
C6_TopicAndFrame ==
    /\ \A o \in Pubs : phase[o] = "initialized" =>
        /\ topic_name[o] = expected_topic_name(o)
        /\ topic[o].kind = "Publisher"
        /\ topic[o].name =
              IF "topic_suffix" \in DOMAIN kwargs[o]
              THEN expected_topic_name(o) \o KwVal["topic_suffix"]
              ELSE expected_topic_name(o)
        /\ frame_id[o] =
              IF "frame_id" \in DOMAIN kwargs[o] THEN KwVal["frame_id"]
              ELSE expected_topic_name(o)
    /\ phase[Reader] = "initialized" =>
        /\ topic_name[Reader] = expected_topic_name(Reader)
        /\ topic[Reader].kind = "Subscriber"
        /\ topic[Reader].name = expected_topic_name(Reader)

\* C6 witness: a publisher with a suffix and no frame_id, and a reader given a suffix it
\* ignores, both initialized
C6_Witness ==
    /\ phase["p1"] = "initialized"
    /\ DOMAIN kwargs["p1"] = {"topic_suffix"}
    /\ component_name["p1"] = <<"a", ".", "1">>
    /\ topic["p1"].name = <<"/", "a", "1", "/", "s">>
    /\ frame_id["p1"] = <<"/", "a", "1">>
    /\ phase[Reader] = "initialized"
    /\ DOMAIN kwargs[Reader] = {"topic", "topic_suffix"}
    /\ topic[Reader].name = <<"/", "t">>

\* --------------------------------------------------------- sequence counter
\* C3: the counter is 0 after initialize and always equals the number of
\* messages publish has sent out since, so does the seq of a header taken
\* now; a step changes it only by publish adding exactly 1, and it never
\* decreases.
C3_SequenceCounts ==
    /\ [](\A o \in Pubs : phase[o] \in {"initialized", "finalized"} =>
            /\ sequence[o] = topic_out[o]
            /\ \A now \in NowTimes : get_ros_header(o, now).seq = topic_out[o])
    /\ [][\A o \in Pubs :
            /\ (call'.op = "initialize" /\ call'.obj = o) => sequence'[o] = 0
            /\ (call'.op = "publish" /\ call'.obj = o /\ ~call'.raised)
                  => sequence'[o] = sequence[o] + 1
            /\ ~(call'.op \in {"initialize", "publish"} /\ call'.obj = o /\ ~call'.raised)
                  => sequence'[o] = sequence[o]]_vars

\* C3 witness: two publish calls completed, then a header was taken, with a transform
\* sent in between
C3_Witness ==
    /\ sequence["p1"] = 2
    /\ topic_out["p1"] = 2
    /\ header.seq = 2
    /\ Len(tf_out) = 1
    /\ call.op = "get_ros_header"

\* ------------------------------------------------------ send_transform_robot
\* the TransformStamped the last send_transform_robot call must have sent,
\* an argument counting as given when it is not None
stamped_as_claimed ==
    [frame_id |-> IF call.parent # None THEN call.parent.str
                  ELSE IF "parent_frame_id" \in DOMAIN kwargs[call.obj]
                       THEN KwVal["parent_frame_id"]
                       ELSE <<"b", "a", "s", "e", "_", "l", "i", "n", "k">>,
     stamp |-> IF call.time # None THEN call.time ELSE call.now,
     child_frame_id |-> IF call.child # None THEN call.child.str ELSE frame_id[call.obj],
     translation |-> "localPosition", rotation |-> "localOrientation"]

\* the same, an argument counting as given when it is true in Python: not
\* None, not a zero time, not an empty string
stamped_as_amended ==
    [frame_id |-> IF call.parent \notin {None, Str(<<>>)} THEN call.parent.str
                  ELSE IF "parent_frame_id" \in DOMAIN kwargs[call.obj]
                       THEN KwVal["parent_frame_id"]
                       ELSE <<"b", "a", "s", "e", "_", "l", "i", "n", "k">>,
     stamp |-> IF call.time \notin {None, Time(0)} THEN call.time ELSE call.now,
     child_frame_id |-> IF call.child \notin {None, Str(<<>>)} THEN call.child.str
                        ELSE frame_id[call.obj],
     translation |-> "localPosition", rotation |-> "localOrientation"]

\* C7 as stated: a send_transform_robot call that returns has put exactly
\* one tfMessage with exactly one TransformStamped on "/tf", nothing on the
\* component's own topic, with child, parent and stamp the arguments given
\* (not None) or their defaults.
C7_TransformAsGiven ==
    (call.op = "send_transform_robot" /\ ~call.raised) =>
        /\ Len(tf_out) >= 1
        /\ tf_out[Len(tf_out)] = <<stamped_as_claimed>>

\* C7 as amended: the same with an argument that is None, a zero time or an
\* empty string replaced by its default; and the call adds exactly one
\* message to "/tf" and none to the component's own topic.
C7_TransformAsTruthy ==
    /\ []((call.op = "send_transform_robot" /\ ~call.raised) =>
            /\ Len(tf_out) >= 1
            /\ tf_out[Len(tf_out)] = <<stamped_as_amended>>)
    /\ [][(call'.op = "send_transform_robot" /\ ~call'.raised) =>
            /\ Len(tf_out') = Len(tf_out) + 1
            /\ SubSeq(tf_out', 1, Len(tf_out)) = tf_out
            /\ topic_out' = topic_out
            /\ sequence' = sequence]_vars

\* C7 witness: a call with a zero time and an empty child, on a publisher without
\* frame_id: the defaults were sent
C7_Witness ==
    /\ call.op = "send_transform_robot"
    /\ ~call.raised
    /\ call.time = Time(0)
    /\ call.now = Time(2)
    /\ call.child = Str(<<>>)
    /\ call.parent = Str(<<"p">>)
    /\ DOMAIN kwargs["p1"] = {}
    /\ tf_out = <<
          <<[frame_id |-> <<"p">>, stamp |-> Time(2), child_frame_id |-> <<"/", "a", "1">>,
             translation |-> "localPosition", rotation |-> "localOrientation"]>> >>

\* ------------------------------------------------- "/tf" publisher lifecycle
\* C8: whenever some ROSPublisherTF instance is initialized and not yet
\* finalized, ROSPublisherTF.topic_tf is a publisher that has not been
\* unregistered.
C8_TfPublisherLive ==
    (\E o \in Pubs : phase[o] = "initialized") =>
        (topic_tf.kind = "Publisher" /\ topic_tf.registered)
====
